---- MODULE Spec2Model ----
(***************************************************************************)
(* Donation checkout and payment-confirmation flow of the ministry         *)
(* website: the Donations form page (pages/Donations.jsx, pages/           *)
(* Donations.js) and the DonationSuccess confirmation page, over the       *)
(* shared axios client of lib/api.js.                                      *)
(*                                                                         *)
(* React semantics kept by the model: a set-state call only enqueues the   *)
(* new value; the component's state (and with it the DOM, the handlers'    *)
(* closures) changes at the next render (action Render).  An effect with   *)
(* dependency [searchParams] runs after mount and after every change of    *)
(* the search parameters.                                                  *)
(***************************************************************************)
EXTENDS Integers, Sequences, FiniteSets, TLC

\* ------------------------------------------------------------------ bounds
\* longest text typed into the amount field
MaxLen == 2
\* user and router events (edits, submit clicks, search changes) in one run
MaxEvents == 3
\* requests sent through the shared API client in one run
MaxRequests == 3
\* submissions of the volunteer, prayer-request and RSVP forms in one run
MaxSubmissions == 2

\* ------------------------------------------------------- text of the amount
Digits == {"0", "5"}
Chars == Digits \cup {"-", "."}

RECURSIVE TextsOfLen(_)
TextsOfLen(n) ==
  IF n = 0 THEN {<<>>}
  ELSE {Append(t, c) : t \in TextsOfLen(n - 1), c \in Chars}

\* what a user can leave in the amount field
AmountTexts == UNION {TextsOfLen(n) : n \in 0..MaxLen}

DigitVal(c) == IF c = "5" THEN 5 ELSE 0

RECURSIVE Pow10(_)
Pow10(n) == IF n = 0 THEN 1 ELSE 10 * Pow10(n - 1)

\* amounts are kept as integers in units of 10^-MaxLen
Scale == Pow10(MaxLen)

\* number of consecutive digits of s from position i on
RECURSIVE DigitRun(_, _)
DigitRun(s, i) ==
  IF i > Len(s) \/ s[i] \notin Digits THEN 0 ELSE 1 + DigitRun(s, i + 1)

\* value of the n digits of s that start at position i
RECURSIVE DigitsValue(_, _, _)
DigitsValue(s, i, n) ==
  IF n = 0 THEN 0
  ELSE 10 * DigitsValue(s, i, n - 1) + DigitVal(s[i + n - 1])

\* HTML "valid floating-point number": -? ( d+ (. d+)? | . d+ ), whole string
IsValidFloat(s) ==
  LET p == IF Len(s) >= 1 /\ s[1] = "-" THEN 2 ELSE 1
      n == DigitRun(s, p)
      q == p + n
      hasDot == q <= Len(s) /\ s[q] = "."
      m == IF hasDot THEN DigitRun(s, q + 1) ELSE 0
  IN  IF hasDot
      THEN m >= 1 /\ q + m = Len(s)
      ELSE n >= 1 /\ q = Len(s) + 1

\* <input type="number">: the value is the text when it is a valid number,
\* the empty string otherwise (value sanitization)
NumberInputValue(text) == IF IsValidFloat(text) THEN text ELSE <<>>

NaN == [nan |-> TRUE, neg |-> FALSE, val |-> 0]

\* parseFloat: the longest prefix that is a decimal literal, NaN when none
ParseFloat(s) ==
  LET neg == Len(s) >= 1 /\ s[1] = "-"
      p == IF neg THEN 2 ELSE 1
      n == DigitRun(s, p)
      q == p + n
      hasDot == q <= Len(s) /\ s[q] = "."
      m == IF hasDot THEN DigitRun(s, q + 1) ELSE 0
      mag == DigitsValue(s, p, n) * Scale
             + (IF m = 0 THEN 0 ELSE DigitsValue(s, q + 1, m) * Pow10(MaxLen - m))
  IN  IF n = 0 /\ m = 0 THEN NaN
      ELSE [nan |-> FALSE, neg |-> neg, val |-> IF neg THEN 0 - mag ELSE mag]

\* x <= 0 in JavaScript: false for NaN, true for -0
LeqZero(x) == ~x.nan /\ x.val <= 0

\* AmountRejected with < in place of <=
AmountRejectedOffByOne(amount) ==
  amount = <<>> \/ (~ParseFloat(amount).nan /\ ParseFloat(amount).val < 0)

\* !amount || parseFloat(amount) <= 0
AmountRejected(amount) == amount = <<>> \/ LeqZero(ParseFloat(amount))

\* ------------------------------------------------------------ value sets
Null == "<null>"
NoSid == "<none>"
SessionIds == {"cs_1", "cs_2"}
Categories == {"general", "childrens_ministry", "building_fund", "emergency"}
Frequencies == {"one_time", "monthly", "quarterly", "yearly"}
Currencies == {"USD", "SSP"}
Names == {"", "Ann"}
Emails == {"", "ann@example.org"}
Messages == {"", "God bless"}
Urls == {"https://checkout.example/a", "https://checkout.example/b"}
PaymentStatuses == {"pending", "paid", "failed", "expired"}
AmountTotals == {5000, 1005, 7}
\* the currency the donation of a session was made in (known to the backend)
DonationCurrencies == {"usd", "ssp"}

\* String.prototype.toLowerCase on the currency codes
ToLowerCase(c) == IF c = "USD" THEN "usd" ELSE IF c = "SSP" THEN "ssp" ELSE c

\* x || null for a string x
OrNull(x) == IF x = "" THEN Null ELSE x

\* what the backend (or the network) answers to a request
OkCheckout(u) == [kind |-> "ok", status |-> 200, url |-> u, detail |-> Null]
NetworkError == [kind |-> "network", status |-> 0, url |-> Null, detail |-> Null]
HttpError(st, d) == [kind |-> "http", status |-> st, url |-> Null, detail |-> d]
ErrorStatuses == {401, 500}
Details == {Null, "Card declined"}
CheckoutResponses ==
  {OkCheckout(u) : u \in Urls} \cup {NetworkError}
  \cup {HttpError(st, d) : st \in ErrorStatuses, d \in Details}

NullStatus == [isNull |-> TRUE, payment_status |-> "", amount_total |-> 0, currency |-> ""]
StatusData(ps, amt, cur) ==
  [isNull |-> FALSE, payment_status |-> ps, amount_total |-> amt, currency |-> cur]
OkStatus(ps, amt, cur) == [kind |-> "ok", status |-> 200, data |-> StatusData(ps, amt, cur)]
StatusResponses ==
  {OkStatus("paid", amt, cur) : amt \in AmountTotals, cur \in DonationCurrencies}
  \cup {OkStatus(ps, 5000, "usd") : ps \in PaymentStatuses \ {"paid"}}
  \cup {[kind |-> "network", status |-> 0, data |-> NullStatus]}
  \cup {[kind |-> "http", status |-> st, data |-> NullStatus] : st \in ErrorStatuses}

\* ------------------------------------------------------------------ state
VARIABLES
  variant,      \* which Donations module the bundle resolves: "jsx" or "js"
                \* (DonationSuccess exists in one version, in Donations.jsx)
  page,         \* the mounted route element: "donations" or "success"
  searchSid,    \* session_id of the current search parameters, or NoSid
  searchHist,   \* the search parameters this mount has had, oldest first
  effectDue,    \* the [searchParams] effect has yet to run for searchSid
  form,         \* Donations: state as of the last render
  formQ,        \* Donations: values enqueued by set-state calls since
  onlineCurrency, \* the code last picked in the Currency select of the online form
  conf,         \* DonationSuccess: state as of the last render
  confQ,        \* DonationSuccess: values enqueued since
  submits,      \* every handleDonate invocation, in order
  checkout,     \* every POST /donations/checkout issued, in order
  statusReqs,   \* every GET /donations/status/{id} issued, in order
  lastSettled,  \* index in statusReqs of the fetch that settled last, or 0
  redirects,    \* every assignment to window.location.href, in order
  toasts,       \* every toast shown, in order
  events,       \* number of user and router events so far
  left,         \* the document has been unloaded by the redirect
  storage,      \* localStorage: the items access_token and user
  apiReqs,      \* every request sent through the shared API client, in order
  siteForms,    \* Volunteer, PrayerRequests, Events: form data and submitting flag
  selectedEvent, \* Events: the event whose RSVP dialog is open, or Null
  sitePending,  \* the submission in flight of each of these forms, or NoReq
  siteDone      \* every settled submission of these forms, in order

vars == <<variant, page, searchSid, searchHist, effectDue, form, formQ, onlineCurrency, conf,
          confQ, submits, checkout, statusReqs, lastSettled, redirects,
          toasts, events, left, storage, apiReqs, siteForms, selectedEvent,
          sitePending, siteDone>>

\* the donation pages
donationVars == <<variant, page, searchSid, searchHist, effectDue, form, formQ,
                  onlineCurrency, conf, confQ, submits, checkout, statusReqs,
                  lastSettled, redirects, toasts, events, left>>
\* the shared API client
clientVars == <<storage, apiReqs>>
\* the volunteer, prayer-request and RSVP forms
siteVars == <<siteForms, selectedEvent, sitePending, siteDone>>

routeVars == <<variant, page, searchSid, searchHist, effectDue>>
formVars == <<form, formQ, onlineCurrency>>
confVars == <<conf, confQ>>
checkoutVars == <<submits, checkout, redirects>>
statusVars == <<statusReqs, lastSettled>>

\* useState initial values, Donations
FormInit ==
  [amount |-> [typed |-> "empty", value |-> <<>>],
   category |-> "general",
   frequency |-> "one_time",
   currency |-> "USD",
   donorInfo |-> [name |-> "", email |-> "", message |-> ""],
   loading |-> FALSE]

\* useState initial values, DonationSuccess
ConfInit == [status |-> NullStatus, loading |-> TRUE]

NoUpdates(st) == [f \in DOMAIN st |-> <<>>]

\* the state after a render: each hook takes the last value enqueued for it
ApplyUpdates(st, q) ==
  [f \in DOMAIN st |-> IF Len(q[f]) = 0 THEN st[f] ELSE q[f][Len(q[f])]]

HasUpdates(q) == \E f \in DOMAIN q : Len(q[f]) > 0

\* ------------------------------------------- values of the other pages
NoReq == "<no request>"
Tokens == {"t1", "t2"}
\* what localStorage.getItem("access_token") can return
StoredTokens == {Null, ""} \cup Tokens
NoStorage == [access_token |-> Null, user |-> Null]

FormKinds == {"volunteer", "prayer", "rsvp"}
\* three of the interestAreas of the volunteer form
InterestAreas == {"Teaching", "Counseling", "Prayer Team"}
EventIds == {"ev1"}
\* a text typed into the name field of a form
EnteredNames == {"Ann"}

\* useState(...) of Volunteer, PrayerRequests (formData) and Events (rsvpData):
\* one text field stands for the text fields of a form
InitialData(kind) ==
  IF kind = "volunteer" THEN [name |-> "", areas_of_interest |-> <<>>]
  ELSE IF kind = "prayer" THEN [name |-> "", category |-> "general"]
  ELSE [name |-> "", number_of_attendees |-> 1]

\* no request has gone through the API client
ClientIdle == storage = NoStorage /\ apiReqs = <<>>

\* the forms as mounted
SiteIdle ==
  /\ siteForms = [k \in FormKinds |-> [formData |-> InitialData(k), submitting |-> FALSE]]
  /\ selectedEvent = Null
  /\ sitePending = [k \in FormKinds |-> NoReq]
  /\ siteDone = <<>>

\* the donation pages as mounted, Donations.jsx without session_id
DonationsIdle ==
  /\ page = "donations"
  /\ variant = "jsx"
  /\ searchSid = NoSid
  /\ searchHist = <<NoSid>>
  /\ effectDue = TRUE
  /\ form = FormInit
  /\ onlineCurrency = FormInit.currency
  /\ formQ = NoUpdates(FormInit)
  /\ conf = ConfInit
  /\ confQ = NoUpdates(ConfInit)
  /\ submits = <<>>
  /\ checkout = <<>>
  /\ statusReqs = <<>>
  /\ lastSettled = 0
  /\ redirects = <<>>
  /\ toasts = <<>>
  /\ events = 0
  /\ left = FALSE

Init ==
  /\ page \in {"donations", "success"}
  /\ variant \in IF page = "donations" THEN {"jsx", "js"} ELSE {"jsx"}
  /\ searchSid \in {"cs_1", NoSid}  \* the first session met is called cs_1
  /\ searchHist = <<searchSid>>
  /\ effectDue = TRUE
  /\ form = FormInit
  /\ onlineCurrency = FormInit.currency
  /\ formQ = NoUpdates(FormInit)
  /\ conf = ConfInit
  /\ confQ = NoUpdates(ConfInit)
  /\ submits = <<>>
  /\ checkout = <<>>
  /\ statusReqs = <<>>
  /\ lastSettled = 0
  /\ redirects = <<>>
  /\ toasts = <<>>
  /\ events = 0
  /\ left = FALSE
  /\ ClientIdle
  /\ SiteIdle

\* the page reacts to events: it is loaded and no effect is waiting to run
Live == ~left /\ ~effectDue

\* ------------------------------------------------------------ React render
Render ==
  /\ ~left
  /\ HasUpdates(formQ) \/ HasUpdates(confQ)
  /\ form' = ApplyUpdates(form, formQ)
  /\ formQ' = NoUpdates(FormInit)
  /\ conf' = ApplyUpdates(conf, confQ)
  /\ confQ' = NoUpdates(ConfInit)
  /\ UNCHANGED <<clientVars, siteVars, routeVars, onlineCurrency, checkoutVars, statusVars, toasts, events, left>>

\* ------------------------------------------------- lib/api.js, interceptors
\* the value the response interceptor rejects with: an Error for a request
\* that got no response, {status, message, details, timestamp} otherwise.
\* A backend error body is {detail: ...}: it has no error, message or details
\* field.  Neither value has a response property (responseDetail is what
\* error.response?.data?.detail evaluates to).
ResponseError(resp) ==
  IF resp.kind = "network"
  THEN [status |-> 0,
        message |-> "Network error. Please check your internet connection.",
        details |-> Null, responseDetail |-> Null]
  ELSE [status |-> resp.status, message |-> "An error occurred",
        details |-> Null, responseDetail |-> Null]

\* -------------------------------------------------------- Donations, form
\* the kind of text in the amount field
TextKind(text) ==
  IF text = <<>> THEN "empty" ELSE IF IsValidFloat(text) THEN "numeric" ELSE "other"

\* the amount state after the field's text became text
AmountOf(text) == [typed |-> TextKind(text), value |-> NumberInputValue(text)]

\* a control reports a change when its value differs from the rendered one
CanEdit == page = "donations" /\ Live /\ events < MaxEvents

\* onChange of the amount input (type="number"): setAmount(e.target.value)
\* (typed records what kind of text the value came from)
SetAmount(text) ==
  /\ CanEdit
  /\ AmountOf(text) # form.amount
  /\ formQ' = [formQ EXCEPT !.amount = <<AmountOf(text)>>]
  /\ events' = events + 1
  /\ UNCHANGED <<clientVars, siteVars, routeVars, form, onlineCurrency, confVars, checkoutVars, statusVars, toasts, left>>

SetCategory(c) ==
  /\ CanEdit
  /\ c # form.category
  /\ formQ' = [formQ EXCEPT !.category = <<c>>]
  /\ events' = events + 1
  /\ UNCHANGED <<clientVars, siteVars, routeVars, form, onlineCurrency, confVars, checkoutVars, statusVars, toasts, left>>

SetFrequency(f) ==
  /\ CanEdit
  /\ f # form.frequency
  /\ formQ' = [formQ EXCEPT !.frequency = <<f>>]
  /\ events' = events + 1
  /\ UNCHANGED <<clientVars, siteVars, routeVars, form, onlineCurrency, confVars, checkoutVars, statusVars, toasts, left>>

\* the Currency select of the online form (Donations.jsx only)
SetCurrency(c) ==
  /\ CanEdit
  /\ variant = "jsx"
  /\ c # form.currency
  /\ formQ' = [formQ EXCEPT !.currency = <<c>>]
  /\ onlineCurrency' = c
  /\ events' = events + 1
  /\ UNCHANGED <<clientVars, siteVars, routeVars, form, confVars, checkoutVars, statusVars, toasts, left>>

\* the Account Currency select of the bank-transfer card (Donations.jsx only)
SetAccountCurrency(c) ==
  /\ CanEdit
  /\ variant = "jsx"
  /\ c # form.currency
  /\ formQ' = [formQ EXCEPT !.currency = <<c>>]
  /\ events' = events + 1
  /\ UNCHANGED <<clientVars, siteVars, routeVars, form, onlineCurrency, confVars, checkoutVars, statusVars, toasts, left>>

\* setDonorInfo({ ...donorInfo, [field]: v }), donorInfo as last rendered
SetDonorInfo(field, v) ==
  /\ CanEdit
  /\ v # form.donorInfo[field]
  /\ formQ' = [formQ EXCEPT !.donorInfo = <<[form.donorInfo EXCEPT ![field] = v]>>]
  /\ events' = events + 1
  /\ UNCHANGED <<clientVars, siteVars, routeVars, form, onlineCurrency, confVars, checkoutVars, statusVars, toasts, left>>

\* ------------------------------------------------ Donations, handleDonate
\* DonationData with anonymous: false in place of !donorInfo.name
DonationDataNamedDonor ==
  [amount |-> ParseFloat(form.amount.value),
   currency |-> IF variant = "jsx" THEN ToLowerCase(form.currency) ELSE "usd",
   category |-> form.category,
   frequency |-> form.frequency,
   donor_name |-> OrNull(form.donorInfo.name),
   donor_email |-> OrNull(form.donorInfo.email),
   message |-> OrNull(form.donorInfo.message),
   anonymous |-> FALSE]

\* the body of the checkout request, from the state the handler closes over
DonationData ==
  [amount |-> ParseFloat(form.amount.value),
   currency |-> IF variant = "jsx" THEN ToLowerCase(form.currency) ELSE "usd",
   category |-> form.category,
   frequency |-> form.frequency,
   donor_name |-> OrNull(form.donorInfo.name),
   donor_email |-> OrNull(form.donorInfo.email),
   message |-> OrNull(form.donorInfo.message),
   anonymous |-> (form.donorInfo.name = "")]

ValidationToast ==
  [kind |-> "error", title |-> "Please enter a valid amount", description |-> Null]

FailureToast(e) ==
  [kind |-> "error", title |-> "Donation Failed",
   description |-> IF variant = "jsx" THEN Null
                   ELSE IF e.responseDetail # Null THEN e.responseDetail
                   ELSE "Please try again later."]

\* a click on the submit button (it is not disabled in the DOM): handleDonate
\* up to its await
HandleDonate ==
  /\ page = "donations" /\ Live
  /\ ~form.loading
  /\ events < MaxEvents
  /\ events' = events + 1
  /\ IF AmountRejected(form.amount.value)
     THEN /\ toasts' = Append(toasts, ValidationToast)
          /\ submits' = Append(submits, [amount |-> form.amount, sent |-> FALSE])
          /\ UNCHANGED <<formQ, checkout>>
     ELSE /\ formQ' = [formQ EXCEPT !.loading = <<TRUE>>]
          /\ checkout' = Append(checkout, [body |-> DonationData, state |-> "open",
                                           url |-> Null, detail |-> Null])
          /\ submits' = Append(submits, [amount |-> form.amount, sent |-> TRUE])
          /\ UNCHANGED toasts
  /\ UNCHANGED <<clientVars, siteVars, routeVars, form, onlineCurrency, confVars, redirects, statusVars, left>>

\* HandleDonateResume with the redirect moved into the finally block
HandleDonateResumeRedirectInFinally(i, resp) ==
  /\ ~left
  /\ checkout[i].state = "open"
  /\ checkout' = [checkout EXCEPT ![i].state = IF resp.kind = "ok" THEN "ok" ELSE "failed",
                                  ![i].url = resp.url,
                                  ![i].detail = resp.detail]
  /\ redirects' = Append(redirects, [req |-> i, url |-> resp.url])
  /\ IF resp.kind = "ok"
     THEN UNCHANGED toasts
     ELSE toasts' = Append(toasts, FailureToast(ResponseError(resp)))
  /\ formQ' = [formQ EXCEPT !.loading = <<FALSE>>]
  /\ UNCHANGED <<clientVars, siteVars, routeVars, form, onlineCurrency, confVars, submits, statusVars, events, left>>

\* HandleDonateResume whose catch also clears the amount field
HandleDonateResumeClearsAmount(i, resp) ==
  /\ ~left
  /\ checkout[i].state = "open"
  /\ checkout' = [checkout EXCEPT ![i].state = IF resp.kind = "ok" THEN "ok" ELSE "failed",
                                  ![i].url = resp.url,
                                  ![i].detail = resp.detail]
  /\ IF resp.kind = "ok"
     THEN /\ redirects' = Append(redirects, [req |-> i, url |-> resp.url])
          /\ formQ' = [formQ EXCEPT !.loading = <<FALSE>>]
          /\ UNCHANGED toasts
     ELSE /\ toasts' = Append(toasts, FailureToast(ResponseError(resp)))
          /\ formQ' = [formQ EXCEPT !.loading = <<FALSE>>,
                                    !.amount = <<[typed |-> "empty", value |-> <<>>]>>]
          /\ UNCHANGED redirects
  /\ UNCHANGED <<clientVars, siteVars, routeVars, form, onlineCurrency, confVars, submits, statusVars, events, left>>

\* HandleDonateResume that sends the request again when it failed
HandleDonateResumeRetry(i, resp) ==
  /\ ~left
  /\ checkout[i].state = "open"
  /\ IF resp.kind = "ok"
     THEN /\ checkout' = [checkout EXCEPT ![i].state = "ok",
                                          ![i].url = resp.url,
                                          ![i].detail = resp.detail]
          /\ redirects' = Append(redirects, [req |-> i, url |-> resp.url])
          /\ UNCHANGED toasts
     ELSE /\ checkout' = Append([checkout EXCEPT ![i].state = "failed",
                                                 ![i].url = resp.url,
                                                 ![i].detail = resp.detail],
                                [checkout[i] EXCEPT !.state = "open"])
          /\ toasts' = Append(toasts, FailureToast(ResponseError(resp)))
          /\ UNCHANGED redirects
  /\ formQ' = [formQ EXCEPT !.loading = <<FALSE>>]
  /\ UNCHANGED <<clientVars, siteVars, routeVars, form, onlineCurrency, confVars, submits, statusVars, events, left>>

\* HandleDonateResume with setLoading(false) after the redirect only, no finally
HandleDonateResumeNoFinally(i, resp) ==
  /\ ~left
  /\ checkout[i].state = "open"
  /\ checkout' = [checkout EXCEPT ![i].state = IF resp.kind = "ok" THEN "ok" ELSE "failed",
                                  ![i].url = resp.url,
                                  ![i].detail = resp.detail]
  /\ IF resp.kind = "ok"
     THEN /\ redirects' = Append(redirects, [req |-> i, url |-> resp.url])
          /\ formQ' = [formQ EXCEPT !.loading = <<FALSE>>]
          /\ UNCHANGED toasts
     ELSE /\ toasts' = Append(toasts, FailureToast(ResponseError(resp)))
          /\ UNCHANGED <<redirects, formQ>>
  /\ UNCHANGED <<clientVars, siteVars, routeVars, form, onlineCurrency, confVars, submits, statusVars, events, left>>

\* handleDonate after its await, request i answered with resp:
\* the redirect or the failure toast, then finally setLoading(false)
HandleDonateResume(i, resp) ==
  /\ ~left
  /\ checkout[i].state = "open"
  /\ checkout' = [checkout EXCEPT ![i].state = IF resp.kind = "ok" THEN "ok" ELSE "failed",
                                  ![i].url = resp.url,
                                  ![i].detail = resp.detail]
  /\ IF resp.kind = "ok"
     THEN /\ redirects' = Append(redirects, [req |-> i, url |-> resp.url])
          /\ UNCHANGED toasts
     ELSE /\ toasts' = Append(toasts, FailureToast(ResponseError(resp)))
          /\ UNCHANGED redirects
  /\ formQ' = [formQ EXCEPT !.loading = <<FALSE>>]
  /\ UNCHANGED <<clientVars, siteVars, routeVars, form, onlineCurrency, confVars, submits, statusVars, events, left>>

\* the browser completes the navigation started by window.location.href = url
PageLeave ==
  /\ ~left
  /\ Len(redirects) > 0
  /\ left' = TRUE
  /\ UNCHANGED <<clientVars, siteVars, routeVars, formVars, confVars, checkoutVars, statusVars, toasts, events>>

\* --------------------------------------------------- search parameters
\* the router changes the search parameters of the mounted route (a link to
\* the same path, a history step): useSearchParams returns a new object
NavigateSearch(s) ==
  /\ Live
  /\ events < MaxEvents
  /\ events' = events + 1
  /\ s # searchSid
  /\ searchSid' = s
  /\ searchHist' = Append(searchHist, s)
  /\ effectDue' = TRUE
  /\ UNCHANGED <<clientVars, siteVars, variant, page, formVars, confVars, checkoutVars, statusVars,
                 toasts, left>>

NewStatusRequest(sid) == [sid |-> sid, state |-> "open", paid |-> FALSE]

\* a status request once answered with resp
Answered(r, resp) ==
  [r EXCEPT !.state = IF resp.kind = "ok" THEN "ok" ELSE "failed",
            !.paid = (resp.kind = "ok" /\ resp.data.payment_status = "paid")]

\* ------------------------------------------- Donations, status on return
\* useEffect(..., [searchParams]): if (sessionId) checkPaymentStatus(sessionId)
DonationsEffect ==
  /\ page = "donations" /\ ~left /\ effectDue
  /\ effectDue' = FALSE
  /\ IF searchSid # NoSid
     THEN statusReqs' = Append(statusReqs, NewStatusRequest(searchSid))
     ELSE UNCHANGED statusReqs
  /\ UNCHANGED <<clientVars, siteVars, variant, page, searchSid, searchHist, formVars, confVars,
                 checkoutVars, lastSettled, toasts, events, left>>

SuccessToast ==
  [kind |-> "success", title |-> "Donation Successful!",
   description |-> "Thank you for your generous contribution!"]

\* CheckPaymentStatusResume that asks again when the fetch failed
CheckPaymentStatusResumeRetry(i, resp) ==
  /\ page = "donations" /\ ~left
  /\ statusReqs[i].state = "open"
  /\ statusReqs' = IF resp.kind = "ok"
                   THEN [statusReqs EXCEPT ![i] = Answered(@, resp)]
                   ELSE Append([statusReqs EXCEPT ![i] = Answered(@, resp)],
                               NewStatusRequest(statusReqs[i].sid))
  /\ lastSettled' = i
  /\ IF resp.kind = "ok" /\ resp.data.payment_status = "paid"
     THEN toasts' = Append(toasts, SuccessToast)
     ELSE UNCHANGED toasts
  /\ UNCHANGED <<clientVars, siteVars, routeVars, formVars, confVars, checkoutVars, events, left>>

\* CheckPaymentStatusResume whose catch shows an error toast
CheckPaymentStatusResumeToastsError(i, resp) ==
  /\ page = "donations" /\ ~left
  /\ statusReqs[i].state = "open"
  /\ statusReqs' = [statusReqs EXCEPT ![i] = Answered(@, resp)]
  /\ lastSettled' = i
  /\ IF resp.kind = "ok"
     THEN IF resp.data.payment_status = "paid"
          THEN toasts' = Append(toasts, SuccessToast)
          ELSE UNCHANGED toasts
     ELSE toasts' = Append(toasts, [kind |-> "error", title |-> "Error checking payment status",
                                    description |-> Null])
  /\ UNCHANGED <<clientVars, siteVars, routeVars, formVars, confVars, checkoutVars, events, left>>

\* checkPaymentStatus after its await, request i answered with resp
CheckPaymentStatusResume(i, resp) ==
  /\ page = "donations" /\ ~left
  /\ statusReqs[i].state = "open"
  /\ statusReqs' = [statusReqs EXCEPT ![i] = Answered(@, resp)]
  /\ lastSettled' = i
  /\ IF resp.kind = "ok" /\ resp.data.payment_status = "paid"
     THEN toasts' = Append(toasts, SuccessToast)
     ELSE UNCHANGED toasts
  /\ UNCHANGED <<clientVars, siteVars, routeVars, formVars, confVars, checkoutVars, events, left>>

\* ------------------------------------------------------- DonationSuccess
\* DonationSuccessEffect without the if (sessionId) test
DonationSuccessEffectNoGuard ==
  /\ page = "success" /\ ~left /\ effectDue
  /\ effectDue' = FALSE
  /\ statusReqs' = Append(statusReqs, NewStatusRequest(searchSid))
  /\ UNCHANGED <<clientVars, siteVars, variant, page, searchSid, searchHist, formVars, confVars,
                 checkoutVars, lastSettled, toasts, events, left>>

\* useEffect(..., [searchParams]): checkStatus(sessionId) or setLoading(false)
DonationSuccessEffect ==
  /\ page = "success" /\ ~left /\ effectDue
  /\ effectDue' = FALSE
  /\ IF searchSid # NoSid
     THEN /\ statusReqs' = Append(statusReqs, NewStatusRequest(searchSid))
          /\ UNCHANGED confQ
     ELSE /\ confQ' = [confQ EXCEPT !.loading = <<FALSE>>]
          /\ UNCHANGED statusReqs
  /\ UNCHANGED <<clientVars, siteVars, variant, page, searchSid, searchHist, formVars, conf,
                 checkoutVars, lastSettled, toasts, events, left>>

\* CheckStatusResume that forgets setStatus(data)
CheckStatusResumeNoSetStatus(i, resp) ==
  /\ page = "success" /\ ~left
  /\ statusReqs[i].state = "open"
  /\ statusReqs' = [statusReqs EXCEPT ![i] = Answered(@, resp)]
  /\ lastSettled' = i
  /\ confQ' = [confQ EXCEPT !.loading = <<FALSE>>]
  /\ UNCHANGED <<clientVars, siteVars, routeVars, formVars, conf, checkoutVars, toasts, events, left>>

\* CheckStatusResume with setLoading(false) after setStatus only, no finally
CheckStatusResumeNoFinally(i, resp) ==
  /\ page = "success" /\ ~left
  /\ statusReqs[i].state = "open"
  /\ statusReqs' = [statusReqs EXCEPT ![i] = Answered(@, resp)]
  /\ lastSettled' = i
  /\ confQ' = IF resp.kind = "ok"
              THEN [confQ EXCEPT !.status = <<resp.data>>, !.loading = <<FALSE>>]
              ELSE confQ
  /\ UNCHANGED <<clientVars, siteVars, routeVars, formVars, conf, checkoutVars, toasts, events, left>>

\* checkStatus after its await, request i answered with resp:
\* setStatus(data) on success, then finally setLoading(false)
CheckStatusResume(i, resp) ==
  /\ page = "success" /\ ~left
  /\ statusReqs[i].state = "open"
  /\ statusReqs' = [statusReqs EXCEPT ![i] = Answered(@, resp)]
  /\ lastSettled' = i
  /\ confQ' = [confQ EXCEPT
                 !.status = IF resp.kind = "ok" THEN <<resp.data>> ELSE @,
                 !.loading = <<FALSE>>]
  /\ UNCHANGED <<clientVars, siteVars, routeVars, formVars, conf, checkoutVars, toasts, events, left>>

\* what DonationSuccess renders for a state
Display(st) ==
  IF st.loading THEN "Loading"
  ELSE IF ~st.status.isNull /\ st.status.payment_status = "paid" THEN "Confirmed"
  ELSE "Unconfirmed"

\* decimal digits of a natural number
DecChars == <<"0", "1", "2", "3", "4", "5", "6", "7", "8", "9">>
DecChar(d) == DecChars[d + 1]
RECURSIVE Decimal(_)
Decimal(n) == IF n < 10 THEN <<DecChar(n)>> ELSE Append(Decimal(n \div 10), DecChar(n % 10))

\* zeros put in front of m to make it len long
RECURSIVE PadZeros(_, _)
PadZeros(m, len) == IF Len(m) >= len THEN m ELSE PadZeros(<<"0">> \o m, len)

\* a / b as an exact number
Divide(a, b) == [num |-> a, den |-> b]

\* ToFixed without the zeros in front of a number below one
ToFixedNoPad(x, f) ==
  LET n == (2 * x.num * Pow10(f) + x.den) \div (2 * x.den)
      m == Decimal(n)
      k == Len(m)
  IN  IF k <= f THEN <<".">> \o m
      ELSE SubSeq(m, 1, k - f) \o <<".">> \o SubSeq(m, k - f + 1, k)

\* Number.prototype.toFixed(f), f > 0, for x >= 0: n the integer nearest to
\* x * 10^f, its digits padded to f + 1, the point before the last f
ToFixed(x, f) ==
  LET n == (2 * x.num * Pow10(f) + x.den) \div (2 * x.den)
      m == PadZeros(Decimal(n), f + 1)
      k == Len(m)
  IN  SubSeq(m, 1, k - f) \o <<".">> \o SubSeq(m, k - f + 1, k)

\* ${(status.amount_total / 100).toFixed(2)} after the literal "$"
AmountText(st) == ToFixed(Divide(st.status.amount_total, 100), 2)
CurrencySign == "$"

Next ==
  \/ Render
  \/ \E text \in AmountTexts : SetAmount(text)
  \/ \E c \in Categories : SetCategory(c)
  \/ \E f \in Frequencies : SetFrequency(f)
  \/ \E c \in Currencies : SetCurrency(c)
  \/ \E c \in Currencies : SetAccountCurrency(c)
  \/ \E v \in Names : SetDonorInfo("name", v)
  \/ \E v \in Emails : SetDonorInfo("email", v)
  \/ \E v \in Messages : SetDonorInfo("message", v)
  \/ HandleDonate
  \/ \E i \in DOMAIN checkout, resp \in CheckoutResponses : HandleDonateResume(i, resp)
  \/ PageLeave
  \/ \E s \in SessionIds \cup {NoSid} : NavigateSearch(s)
  \/ DonationsEffect
  \/ \E i \in DOMAIN statusReqs, resp \in StatusResponses : CheckPaymentStatusResume(i, resp)
  \/ DonationSuccessEffect
  \/ \E i \in DOMAIN statusReqs, resp \in StatusResponses : CheckStatusResume(i, resp)

\* ================================================================ claims
OpenCheckouts == {i \in DOMAIN checkout : checkout[i].state = "open"}
OpenStatusReqs == {i \in DOMAIN statusReqs : statusReqs[i].state = "open"}
Count(seq, v) == Cardinality({i \in DOMAIN seq : seq[i] = v})
Unsent == {i \in DOMAIN submits : ~submits[i].sent}

\* a valid number text whose value is not above zero: a minus sign, or no
\* digit other than 0
NotPositive(v) == v = <<>> \/ v[1] = "-" \/ \A i \in DOMAIN v : v[i] \in {"0", ".", "-"}

\* the amount a submit found is empty, not a number, or not above zero
InvalidAmount(a) == a.typed # "numeric" \/ NotPositive(a.value)

\* C1: a submit whose amount is empty, non-numeric or <= 0 issues no checkout
\* request and shows the validation message; every checkout request issued
\* carries a numeric amount > 0.
C1_InvalidAmountNeverSent ==
  /\ \A i \in DOMAIN submits : InvalidAmount(submits[i].amount) => ~submits[i].sent
  /\ Count(toasts, ValidationToast) = Cardinality(Unsent)
  /\ Len(checkout) = Len(submits) - Cardinality(Unsent)
  /\ \A i \in DOMAIN checkout :
       ~checkout[i].body.amount.nan /\ checkout[i].body.amount.val > 0

C1_Witness ==
  \E i \in DOMAIN submits :
    /\ submits[i].amount.typed = "numeric"
    /\ NotPositive(submits[i].amount.value)
    /\ ~submits[i].sent
    /\ Count(toasts, ValidationToast) = 1

C3_OneRedirectToReturnedUrl ==
  /\ \A i \in DOMAIN checkout :
       checkout[i].state = "ok" =>
         /\ Cardinality({k \in DOMAIN redirects : redirects[k].req = i}) = 1
         /\ \A k \in DOMAIN redirects :
              redirects[k].req = i => redirects[k].url = checkout[i].url
  /\ \A k \in DOMAIN redirects : checkout[redirects[k].req].state = "ok"

C3_Witness ==
  \E i \in DOMAIN checkout, k \in DOMAIN redirects :
    /\ checkout[i].state = "ok"
    /\ redirects[k] = [req |-> i, url |-> checkout[i].url]
    /\ \E j \in DOMAIN checkout : checkout[j].state = "failed"

LastPaid ==
  /\ lastSettled # 0
  /\ statusReqs[lastSettled].state = "ok"
  /\ statusReqs[lastSettled].paid

\* C4: on the confirmation page, once the status fetch that settled last
\* succeeded with payment_status "paid" and the page has rendered, the
\* Confirmed display is shown.
C4_PaidEndsConfirmed ==
  (page = "success" /\ LastPaid /\ ~HasUpdates(confQ)) => Display(conf) = "Confirmed"

C4_Witness ==
  page = "success" /\ LastPaid /\ ~HasUpdates(confQ) /\ Display(conf) = "Confirmed"

\* C5 (as claimed): on the confirmation page, once the status fetch that
\* settled last failed or answered anything but "paid" and the page has
\* rendered, the Unconfirmed display is shown and no toast was raised.
C5_NotPaidEndsUnconfirmed ==
  (page = "success" /\ lastSettled # 0 /\ ~LastPaid /\ ~HasUpdates(confQ)) =>
    (Display(conf) = "Unconfirmed" /\ toasts = <<>>)

NeverHadSession == \A k \in DOMAIN searchHist : searchHist[k] = NoSid

C7_PendingFetchShowsLoading ==
  (page = "success" /\ searchSid # NoSid /\ OpenStatusReqs # {}) =>
    Display(conf) = "Loading"

HasSid(s) == s # NoSid

\* the search parameters the effect has run for, oldest first
EffectRuns ==
  IF effectDue THEN SubSeq(searchHist, 1, Len(searchHist) - 1) ELSE searchHist

Terminal(d) == d \in {"Confirmed", "Unconfirmed"}

\* C9 (as claimed): once the confirmation page shows Confirmed or
\* Unconfirmed, no later event under the same search parameters changes the
\* display.
C9_TerminalDisplayStays ==
  [][(page = "success" /\ Terminal(Display(conf)) /\ searchSid' = searchSid)
       => Display(conf') = Display(conf)]_vars

\* the loading flag the next render will show
LoadingNext == ApplyUpdates(form, formQ).loading

NewBody == checkout'[Len(checkout')].body

\* C11: the checkout request a submit issues has anonymous true exactly when
\* the donor name in the form is empty, and then donor_name is null (the name
\* itself otherwise); no later step changes the body of an issued request.
C11_AnonymousIffNoName ==
  [][/\ Len(checkout') > Len(checkout) =>
          /\ NewBody.anonymous <=> form.donorInfo.name = ""
          /\ NewBody.donor_name = IF NewBody.anonymous THEN Null ELSE form.donorInfo.name
     /\ \A i \in DOMAIN checkout : checkout'[i].body = checkout[i].body]_vars

C11_Witness ==
  \E i \in DOMAIN checkout, k \in DOMAIN submits :
    /\ submits[k].sent
    /\ form.donorInfo.name = ""
    /\ checkout[i].body.anonymous /\ checkout[i].body.donor_name = Null

\* request i is answered: axios rejects a request that got no answer after
\* its timeout, so every request settles
CheckoutSettles(i) ==
  i \in DOMAIN checkout /\ \E resp \in CheckoutResponses : HandleDonateResume(i, resp)

\* React commits every update it has queued; every checkout request settles
FairSpec ==
  /\ Init /\ [][Next]_vars
  /\ WF_vars(Render)
  /\ \A i \in 1..MaxEvents : WF_vars(CheckoutSettles(i))

FailedCheckouts == {i \in DOMAIN checkout : checkout[i].state = "failed"}
FailureToasts ==
  {k \in DOMAIN toasts : toasts[k].kind = "error" /\ toasts[k].title = "Donation Failed"}

\* C12: every failed checkout request has raised one "Donation Failed"
\* notification, and after a request has failed the submit button is rendered
\* enabled again (loading false) as long as the page has not been left.
C12_FailureNotifiedAndReenabled ==
  /\ [](Cardinality(FailureToasts) = Cardinality(FailedCheckouts))
  /\ \A i \in 1..MaxEvents : (i \in FailedCheckouts) ~> (left \/ ~form.loading)

C12_Witness ==
  /\ FailedCheckouts # {} /\ FailureToasts # {}
  /\ ~left /\ ~form.loading /\ ~HasUpdates(formQ)
  /\ \E k \in DOMAIN submits : submits[k].sent

\* C13 (as claimed): a checkout request that failed with a response carrying
\* a detail message has a "Donation Failed" notification whose description is
\* that detail.
C13_DetailInNotification ==
  \A i \in FailedCheckouts :
    checkout[i].detail # Null =>
      \E k \in FailureToasts : toasts[k].description = checkout[i].detail

\* C14: the Confirmed display shows amount_total / 100 with two fraction
\* digits: the digits of amount_total div 100, a point, and amount_total mod
\* 100 as two digits.
C14_AmountWithTwoFractionDigits ==
  (page = "success" /\ Display(conf) = "Confirmed") =>
    LET n == conf.status.amount_total
    IN  AmountText(conf) =
          Decimal(n \div 100) \o <<".", DecChar((n % 100) \div 10), DecChar(n % 10)>>

C14_Witness ==
  /\ page = "success" /\ Display(conf) = "Confirmed"
  /\ conf.status.amount_total = 7
  /\ AmountText(conf) = <<"0", ".", "0", "7">>

\* the sign that belongs to the currency a donation was made in
SignOf(cur) == IF cur = "usd" THEN "$" ELSE "SSP"

\* C15 (as claimed): the sign in front of the amount on the Confirmed display
\* is the one of the currency the donation was made in.
C15_SignOfDonationCurrency ==
  (page = "success" /\ Display(conf) = "Confirmed") =>
    CurrencySign = SignOf(conf.status.currency)

\* C16: a checkout request is issued only by a submit action, one per
\* action, and a status request only by a run of the effect (after mount or
\* a change of the search parameters), one per run: no step that settles a
\* request issues another, and there are never more checkout requests than
\* submit actions.
C16_NoAutomaticRetry ==
  [][/\ Len(checkout') >= Len(checkout) /\ Len(statusReqs') >= Len(statusReqs)
     /\ Len(checkout') > Len(checkout) =>
          /\ Len(checkout') = Len(checkout) + 1
          /\ Len(submits') = Len(submits) + 1
          /\ events' = events + 1
     /\ Len(statusReqs') > Len(statusReqs) =>
          /\ Len(statusReqs') = Len(statusReqs) + 1
          /\ effectDue /\ ~effectDue'
     /\ Len(checkout') <= Len(submits')]_vars

C16_Witness ==
  /\ page = "donations"
  /\ Len(checkout) = 1 /\ checkout[1].state = "failed"
  /\ Len(statusReqs) = 1 /\ statusReqs[1].state = "failed"
  /\ ~HasUpdates(formQ) /\ ~form.loading /\ ~effectDue

\* the step settles a checkout request while another one stays in flight
SettlesBesideOpen ==
  \E i, j \in DOMAIN checkout :
    /\ i # j
    /\ checkout[i].state = "open" /\ checkout'[i].state # "open"
    /\ checkout[j].state = "open" /\ checkout'[j].state = "open"

C18_SentAsSelectedInForm ==
  [][(Len(checkout') > Len(checkout) /\ ~HasUpdates(formQ)) =>
        /\ NewBody.category = form.category
        /\ NewBody.frequency = form.frequency
        /\ NewBody.currency = ToLowerCase(onlineCurrency)]_vars

\* the status requests issued for the session_id now in the search parameters
ForCurrentSession == {i \in DOMAIN statusReqs : statusReqs[i].sid = searchSid}

\* C19 (as claimed): the Confirmed display is on the confirmation page only
\* if the most recent status request issued for the session_id now in the
\* URL succeeded with payment_status "paid".
C19_ConfirmedOnlyForCurrentSession ==
  (page = "success" /\ Display(conf) = "Confirmed") =>
    /\ searchSid # NoSid
    /\ \E i \in ForCurrentSession :
         /\ \A j \in ForCurrentSession : j <= i
         /\ statusReqs[i].state = "ok" /\ statusReqs[i].paid

\* C20 (as claimed): once a redirect has been issued, a submit button that
\* is rendered disabled stays disabled until the page is left.
C20_NoReenableAfterSuccess ==
  [][(redirects # <<>> /\ ~left /\ form.loading) => form'.loading]_vars

\* the fields of the donation form, without the loading flag
Fields(st) ==
  [amount |-> st.amount, currency |-> st.currency, category |-> st.category,
   frequency |-> st.frequency, donorInfo |-> st.donorInfo]

\* the step is a submit that the validation refuses
SubmitRefused == Len(submits') > Len(submits) /\ ~submits'[Len(submits')].sent

\* the step settles a checkout request as failed
CheckoutFails ==
  \E i \in DOMAIN checkout : checkout[i].state = "open" /\ checkout'[i].state = "failed"

\* C21: a step in which a checkout attempt fails (the submit is refused by
\* the validation, or the request is answered by an error) assigns no
\* redirect and leaves the amount, currency, category, frequency and donor
\* fields as they are, rendered and queued.
C21_FailedAttemptKeepsForm ==
  [][(SubmitRefused \/ CheckoutFails) =>
        /\ redirects' = redirects
        /\ Fields(form') = Fields(form)
        /\ Fields(formQ') = Fields(formQ)]_vars

C21_Witness ==
  /\ \E i \in DOMAIN checkout : checkout[i].state = "failed"
  /\ \E k \in DOMAIN submits : ~submits[k].sent
  /\ redirects = <<>>

\* request i is answered: axios rejects a request that got no answer after
\* its timeout, so every status request settles
StatusSettles(i) ==
  i \in DOMAIN statusReqs /\ \E resp \in StatusResponses : CheckStatusResume(i, resp)

\* React runs the effect after the commit and commits every queued update;
\* every status request settles
FairConfirmSpec ==
  /\ Init /\ [][Next]_vars
  /\ WF_vars(Render)
  /\ WF_vars(DonationSuccessEffect)
  /\ \A i \in 1..(MaxEvents + 1) : WF_vars(StatusSettles(i))

\* C22: the confirmation page leaves the loading display: a settled status
\* request or an effect run without session_id has called setLoading(false),
\* so the render that follows shows no loading, and every page view gets
\* there; without session_id no request has been issued on the way.
C22_LeavesLoading ==
  /\ []((page = "success" /\ ~HasUpdates(confQ) /\ (lastSettled # 0 \/ (NeverHadSession /\ ~effectDue)))
          => ~conf.loading)
  /\ []((page = "success" /\ NeverHadSession) => statusReqs = <<>>)
  /\ (page = "success") ~> ~conf.loading

C22_Witness ==
  /\ page = "success" /\ ~conf.loading /\ ~HasUpdates(confQ)
  /\ Len(statusReqs) = 1 /\ statusReqs[1].state = "failed"

\* the step settles status request i of the donations page
StatusSettled(i) == statusReqs[i].state = "open" /\ statusReqs'[i].state # "open"

\* C23: on the donations page a step that settles a status request shows the
\* success toast when the request succeeded with payment_status "paid" and
\* shows nothing otherwise; issuing the request shows nothing.
C23_ToastOnlyWhenPaid ==
  [][page = "donations" =>
        /\ \A i \in DOMAIN statusReqs :
             StatusSettled(i) =>
               toasts' = IF statusReqs'[i].state = "ok" /\ statusReqs'[i].paid
                         THEN Append(toasts, SuccessToast)
                         ELSE toasts
        /\ Len(statusReqs') > Len(statusReqs) => toasts' = toasts]_vars

C23_Witness ==
  /\ page = "donations"
  /\ \E i \in DOMAIN statusReqs : statusReqs[i].state = "ok" /\ statusReqs[i].paid
  /\ \E i \in DOMAIN statusReqs : statusReqs[i].state = "failed"
  /\ \E i \in DOMAIN statusReqs : statusReqs[i].state = "ok" /\ ~statusReqs[i].paid
  /\ toasts = <<SuccessToast>>

\* ------------------------------------------------ the shared API client
\* a value is truthy in if (token)
Truthy(x) == x \notin {Null, ""}

\* `Bearer ${token}`: the parts of the header value; no header is no part
Bearer(token) == <<"Bearer ", token>>
NoHeader == <<>>

\* RequestInterceptor without the if (token) test
RequestInterceptorNoGuard(token) == Bearer(token)

\* the request interceptor: the Authorization header of the request
RequestInterceptor(token) == IF Truthy(token) THEN Bearer(token) ELSE NoHeader

ApiStatuses == {200, 401, 500}
ApiResponses == {[kind |-> "network", status |-> 0]} \cup {[kind |-> "http", status |-> st] : st \in ApiStatuses}

\* ResponseInterceptor that removes the items on every error response
ResponseInterceptorAnyError(st, resp) ==
  IF resp.kind = "http" /\ resp.status # 200 THEN NoStorage ELSE st

\* the response interceptor on localStorage: case 401 removes access_token
\* and user
ResponseInterceptor(st, resp) ==
  IF resp.kind = "http" /\ resp.status = 401 THEN NoStorage ELSE st

\* a login (outside these sources) stores a token and the user
StoreToken(tok) ==
  /\ storage.access_token # tok
  /\ storage' = [access_token |-> tok, user |-> "user"]
  /\ UNCHANGED <<donationVars, siteVars, apiReqs>>

\* a request is sent through api: the request interceptor runs
SendRequest ==
  /\ Len(apiReqs) < MaxRequests
  /\ apiReqs' = Append(apiReqs, [authorization |-> RequestInterceptor(storage.access_token),
                                 stored |-> storage.access_token,
                                 state |-> "open", status |-> 0])
  /\ UNCHANGED <<donationVars, siteVars, storage>>

\* request i is answered: the response interceptor runs
ReceiveResponse(i, resp) ==
  /\ apiReqs[i].state = "open"
  /\ apiReqs' = [apiReqs EXCEPT ![i].state = resp.kind, ![i].status = resp.status]
  /\ storage' = ResponseInterceptor(storage, resp)
  /\ UNCHANGED <<donationVars, siteVars>>

ClientInit ==
  /\ DonationsIdle
  /\ SiteIdle
  /\ storage \in {NoStorage} \cup {[access_token |-> t, user |-> "user"] : t \in Tokens}
  /\ apiReqs = <<>>

ClientNext ==
  \/ \E tok \in Tokens \cup {""} : StoreToken(tok)
  \/ SendRequest
  \/ \E i \in DOMAIN apiReqs, resp \in ApiResponses : ReceiveResponse(i, resp)

ClientSpec == ClientInit /\ [][ClientNext]_vars

\* the step answers request i
Answers(i) == apiReqs[i].state = "open" /\ apiReqs'[i].state # "open"

\* C24: a step that answers a request with status 401 leaves access_token
\* and user removed; a step that answers with anything else leaves both as
\* they are; and a request sent while no token is stored (as it is from the
\* 401 until a token is stored again) carries no Authorization header.
C24_UnauthorizedClearsToken ==
  [][/\ \A i \in DOMAIN apiReqs :
          Answers(i) =>
            storage' = IF apiReqs'[i].status = 401 THEN NoStorage ELSE storage
     /\ (Len(apiReqs') > Len(apiReqs) /\ storage.access_token = Null) =>
          apiReqs'[Len(apiReqs')].authorization = NoHeader]_vars

C24_Witness ==
  \E i, j \in DOMAIN apiReqs :
    /\ i < j
    /\ apiReqs[i].status = 401 /\ apiReqs[i].authorization = Bearer("t1")
    /\ apiReqs[j].stored = Null /\ apiReqs[j].authorization = NoHeader
    /\ storage = NoStorage

\* C26 (as claimed): a request carries an Authorization header exactly when
\* the item access_token is present in localStorage at the moment it is sent.
C26_HeaderIffItemPresent ==
  \A i \in DOMAIN apiReqs :
    apiReqs[i].authorization # NoHeader <=> apiReqs[i].stored # Null

\* C26 (amended): a request carries an Authorization header exactly when a
\* non-empty access_token is stored at the moment it is sent, and the header
\* is "Bearer " followed by that token.
C26_BearerIffToken ==
  \A i \in DOMAIN apiReqs :
    /\ apiReqs[i].authorization # NoHeader <=> apiReqs[i].stored \in Tokens
    /\ apiReqs[i].stored \in Tokens =>
         apiReqs[i].authorization = <<"Bearer ", apiReqs[i].stored>>

C26_Witness ==
  \E i, j, k \in DOMAIN apiReqs :
    /\ apiReqs[i].stored = "t1" /\ apiReqs[i].authorization = <<"Bearer ", "t1">>
    /\ apiReqs[j].stored = "t2" /\ apiReqs[j].authorization = <<"Bearer ", "t2">>
    /\ apiReqs[k].stored = Null /\ apiReqs[k].authorization = NoHeader

\* ------------------------- the volunteer, prayer-request and RSVP forms
\* Array.prototype.includes
Includes(arr, x) == \E i \in DOMAIN arr : arr[i] = x

\* arr.filter((i) => i !== x)
RECURSIVE Without(_, _)
Without(arr, x) ==
  IF arr = <<>> THEN <<>>
  ELSE IF Head(arr) = x THEN Without(Tail(arr), x)
  ELSE <<Head(arr)>> \o Without(Tail(arr), x)

\* ToggleInterest that always adds the area
ToggleInterestAddsOnly(areas, interest) == Append(areas, interest)

\* toggleInterest on prev.areas_of_interest
ToggleInterest(areas, interest) ==
  IF Includes(areas, interest) THEN Without(areas, interest) ELSE Append(areas, interest)

SubmissionsSoFar == Len(siteDone) + Cardinality({k \in FormKinds : sitePending[k] # NoReq})

\* onChange of a text field: setFormData({ ...formData, name: v })
EnterName(kind, v) ==
  /\ v # siteForms[kind].formData.name
  /\ siteForms' = [siteForms EXCEPT ![kind].formData.name = v]
  /\ UNCHANGED <<donationVars, clientVars, selectedEvent, sitePending, siteDone>>

\* onCheckedChange of an interest checkbox of the volunteer form
ToggleArea(a) ==
  /\ siteForms' = [siteForms EXCEPT !["volunteer"].formData.areas_of_interest =
                                      ToggleInterest(@, a)]
  /\ UNCHANGED <<donationVars, clientVars, selectedEvent, sitePending, siteDone>>

\* the RSVP button of an event: setSelectedEvent(event)
SelectEvent(e) ==
  /\ selectedEvent = Null
  /\ selectedEvent' = e
  /\ UNCHANGED <<donationVars, clientVars, siteForms, sitePending, siteDone>>

\* a submit of a form whose button is not disabled, up to the await:
\* setSubmitting(true) and the request
FormSubmit(kind) ==
  /\ ~siteForms[kind].submitting
  /\ SubmissionsSoFar < MaxSubmissions
  /\ siteForms' = [siteForms EXCEPT ![kind].submitting = TRUE]
  /\ sitePending' = [sitePending EXCEPT ![kind] = "sent"]
  /\ UNCHANGED <<donationVars, clientVars, selectedEvent, siteDone>>

\* FormResume with the reset of the form data moved into the finally block
FormResumeResetsAlways(kind, ok) ==
  /\ sitePending[kind] # NoReq
  /\ sitePending' = [sitePending EXCEPT ![kind] = NoReq]
  /\ siteDone' = Append(siteDone, [form |-> kind, ok |-> ok])
  /\ siteForms' = [siteForms EXCEPT ![kind] = [formData |-> InitialData(kind), submitting |-> FALSE]]
  /\ IF ok /\ kind = "rsvp" THEN selectedEvent' = Null ELSE UNCHANGED selectedEvent
  /\ UNCHANGED <<donationVars, clientVars>>

\* the handler after its await: on success the form data is set to its
\* initial values (and Events closes the dialog), then finally
\* setSubmitting(false)
FormResume(kind, ok) ==
  /\ sitePending[kind] # NoReq
  /\ sitePending' = [sitePending EXCEPT ![kind] = NoReq]
  /\ siteDone' = Append(siteDone, [form |-> kind, ok |-> ok])
  /\ siteForms' = [siteForms EXCEPT
                     ![kind] = [formData |-> IF ok THEN InitialData(kind) ELSE @.formData,
                                submitting |-> FALSE]]
  /\ IF ok /\ kind = "rsvp" THEN selectedEvent' = Null ELSE UNCHANGED selectedEvent
  /\ UNCHANGED <<donationVars, clientVars>>

\* Volunteer.handleSubmit
VolunteerSubmit == FormSubmit("volunteer")
VolunteerSubmitResume(ok) == FormResume("volunteer", ok)

\* PrayerRequests.handleSubmit
PrayerSubmit == FormSubmit("prayer")
PrayerSubmitResume(ok) == FormResume("prayer", ok)

\* Events.handleRSVP: if (!selectedEvent) return
HandleRSVP == selectedEvent # Null /\ FormSubmit("rsvp")
HandleRSVPResume(ok) == FormResume("rsvp", ok)

SiteInit == DonationsIdle /\ ClientIdle /\ SiteIdle

SiteNext ==
  \/ \E k \in FormKinds, v \in EnteredNames \cup {""} : EnterName(k, v)
  \/ \E a \in InterestAreas : ToggleArea(a)
  \/ \E e \in EventIds : SelectEvent(e)
  \/ VolunteerSubmit
  \/ \E ok \in BOOLEAN : VolunteerSubmitResume(ok)
  \/ PrayerSubmit
  \/ \E ok \in BOOLEAN : PrayerSubmitResume(ok)
  \/ HandleRSVP
  \/ \E ok \in BOOLEAN : HandleRSVPResume(ok)

SiteSpec == SiteInit /\ [][SiteNext]_vars

\* the step settles the submission of form k / sends one
Settles(k) == sitePending[k] # NoReq /\ sitePending'[k] = NoReq
Submits(k) == sitePending[k] = NoReq /\ sitePending'[k] # NoReq

\* C25: for each of the three forms, the step that settles a submission
\* leaves submitting false and sets the form data to its initial values when
\* the request succeeded, leaving the data as entered when it failed; the
\* step that sends a submission leaves the data as entered.
C25_ResetOnlyAfterSuccess ==
  [][\A k \in FormKinds :
       /\ Settles(k) =>
            /\ ~siteForms'[k].submitting
            /\ siteForms'[k].formData =
                 IF siteDone'[Len(siteDone')].ok THEN InitialData(k)
                 ELSE siteForms[k].formData
       /\ Submits(k) => siteForms'[k].formData = siteForms[k].formData]_vars

C25_Witness ==
  /\ Len(siteDone) = 2 /\ ~siteDone[1].ok /\ siteDone[2].ok
  /\ siteDone[1].form = "volunteer" /\ siteDone[2].form = "rsvp"
  /\ siteForms["volunteer"].formData # InitialData("volunteer")
  /\ siteForms["rsvp"].formData = InitialData("rsvp")
  /\ \A k \in FormKinds : ~siteForms[k].submitting

\* the areas selected in the volunteer form
Selection == siteForms["volunteer"].formData.areas_of_interest
Members(arr) == {arr[i] : i \in DOMAIN arr}

Spec == Init /\ [][Next]_vars
====
